---- MODULE Spec2Model ----
(***************************************************************************)
(* Model of app.py: the Flask upload handler upload_file, the four chart   *)
(* functions it calls, fig_to_base64, and the parts of pandas/matplotlib   *)
(* whose behaviour decides what the handler returns (read_csv's type       *)
(* inference, describe's ValueError on an empty selection, duplicated,     *)
(* value_counts, pyplot's global registry of open figures).                *)
(*                                                                         *)
(* A CSV file is a header of ncols names and rows of text tokens.  A       *)
(* column is named by its position.  A parsed cell is a record             *)
(* [k, n, s]: NaN, a number, a boolean or a string.                        *)
(***************************************************************************)
EXTENDS Integers, Sequences, FiniteSets, TLC

VARIABLES
    pc,         \* "idle" | "received" | "responded": where the server is in a request
    req,        \* the request being handled: [has_file, filename, content]
    response,   \* the JSON object upload_file returned
    df,         \* the DataFrame read_csv produced for this request
    file_read,  \* whether file.read() was called for this request
    failed,     \* the charts whose rendering raised during this request
    plots,      \* chart name -> what the chart function did (columns, figure, ret)
    open_figs,  \* number of figures in pyplot's global registry (never reset)
    served      \* number of requests answered so far

vars == <<pc, req, response, df, file_read, failed, plots, open_figs, served>>

(***************************************************************************)
(* Bounds of the model.                                                    *)
(***************************************************************************)
MaxCols == 3        \* columns of an exhaustively enumerated CSV
MaxRows == 3        \* rows of an exhaustively enumerated CSV
MaxCells == 6       \* cells (rows * columns) of an exhaustively enumerated CSV
MaxRequests == 1    \* requests served in one behaviour
MaxWideCols == 14   \* columns of a generated wide CSV
WideRows == 21      \* rows of a generated wide CSV

(***************************************************************************)
(* Program constants.                                                      *)
(***************************************************************************)
MinCorrCols == 2    \* numeric_df.shape[1] < 2
MaxHist == 9        \* numeric_cols[:9]
HistGridCols == 3   \* n_cols = 3
MaxUnique == 20     \* df[col].nunique() < 20
MaxBars == 6        \* suitable_cols[:6]
BarGridCols == 2    \* n_cols = 2
TopCategories == 10 \* value_counts().index[:10]

(***************************************************************************)
(* Generic helpers.                                                        *)
(***************************************************************************)
Min(a, b) == IF a <= b THEN a ELSE b

Take(s, n) == SubSeq(s, 1, Min(n, Len(s)))

Range(s) == {s[i] : i \in 1..Len(s)}

\* The indices 1..n in order.
Indices(n) == [i \in 1..n |-> i]

(***************************************************************************)
(* Python values.                                                          *)
(***************************************************************************)
None == [kind |-> "None"]

Ok(v) == [ok |-> TRUE, val |-> v]
Raise(e) == [ok |-> FALSE, exc |-> e]

NaN == [k |-> "nan", n |-> 0, s |-> ""]
Num(n) == [k |-> "num", n |-> n, s |-> ""]
Str(s) == [k |-> "str", n |-> 0, s |-> s]
Bool(s) == [k |-> "bool", n |-> 0, s |-> s]

(***************************************************************************)
(* pd.read_csv(io.StringIO(file.read().decode('utf-8')))                   *)
(***************************************************************************)
NumericLiterals == {"1", "2", "1.0"}
BoolLiterals == {"True", "False"}

\* float("1") = float("1.0") = 1.0: two spellings parse to one number.
NumValue(tok) == IF tok = "2" THEN 2 ELSE 1

\* read_csv skips blank lines; with one column an empty field is a blank line.
IsBlankLine(content, row) == content.ncols = 1 /\ row = <<"">>

DataRows(content) ==
    SelectSeq(content.rows, LAMBDA row : ~IsBlankLine(content, row))

\* A row with fewer fields than the header is padded with missing values.
Field(row, c) == IF c <= Len(row) THEN row[c] ELSE ""

InferDtype(toks) ==
    IF Len(toks) = 0 THEN "object"
    ELSE IF \A i \in 1..Len(toks) : toks[i] \in NumericLiterals \cup {""}
         THEN "number"
    ELSE IF \A i \in 1..Len(toks) : toks[i] \in BoolLiterals
         THEN "bool"
    ELSE "object"

ParseCell(dtype, tok) ==
    IF tok = "" THEN NaN
    ELSE IF dtype = "number" THEN Num(NumValue(tok))
    ELSE IF dtype = "bool" THEN Bool(tok)
    ELSE Str(tok)

ParseTable(content) ==
    LET rows == DataRows(content)
        toks(c) == [r \in 1..Len(rows) |-> Field(rows[r], c)]
        dtypes == [c \in 1..content.ncols |-> InferDtype(toks(c))]
    IN [ncols |-> content.ncols,
        nrows |-> Len(rows),
        dtypes |-> dtypes,
        cells |-> [c \in 1..content.ncols |->
                   [r \in 1..Len(rows) |-> ParseCell(dtypes[c], toks(c)[r])]]]

\* decode raises on bytes that are not UTF-8; read_csv raises on a file
\* without columns and on a row, after the first, with more fields than the
\* header (the first data row of every input has as many fields as the header).
read_csv(content) ==
    IF ~content.utf8 THEN Raise("UnicodeDecodeError")
    ELSE IF content.ncols = 0 THEN Raise("EmptyDataError")
    ELSE IF \E r \in 2..Len(content.rows) : Len(content.rows[r]) > content.ncols
         THEN Raise("ParserError")
    ELSE Ok(ParseTable(content))

(***************************************************************************)
(* DataFrame operations.                                                   *)
(***************************************************************************)
EmptyFrame == [ncols |-> 0, nrows |-> 0, dtypes |-> <<>>, cells |-> <<>>]

\* df.select_dtypes(include=...).columns: the matching columns in column order.
select_dtypes(d, include) ==
    SelectSeq(Indices(d.ncols), LAMBDA c : d.dtypes[c] \in include)

NumberDtypes == {"number"}
CategoricalDtypes == {"object", "category"}

\* DataFrame.empty: some axis has length 0.
IsEmpty(d, cols) == Len(cols) = 0 \/ d.nrows = 0

Row(d, r) == [c \in 1..d.ncols |-> d.cells[c][r]]

\* df.isnull(): one flag per cell, column by column.
isnull(d) == [c \in 1..d.ncols |-> [r \in 1..d.nrows |-> d.cells[c][r] = NaN]]

\* df.isnull().sum().sum()
NullCount(d) ==
    Cardinality({<<c, r>> \in (1..d.ncols) \X (1..d.nrows) : d.cells[c][r] = NaN})

\* df.duplicated(): a row is flagged when an equal row was seen before it
\* (keep='first'; missing values compare equal to each other).
RECURSIVE DuplicatedFrom(_, _, _)
DuplicatedFrom(d, r, seen) ==
    IF r > d.nrows THEN <<>>
    ELSE <<Row(d, r) \in seen>> \o DuplicatedFrom(d, r + 1, seen \cup {Row(d, r)})

duplicated_keep_false(d) ==
    [r \in 1..d.nrows |-> \E q \in 1..d.nrows : q # r /\ Row(d, q) = Row(d, r)]

duplicated(d) == DuplicatedFrom(d, 1, {})

\* int(mask.sum())
CountTrue(mask) == Cardinality({i \in 1..Len(mask) : mask[i]})

\* The distinct non-missing values of a column, in order of first appearance.
RECURSIVE UniquesFrom(_, _, _)
UniquesFrom(col, r, acc) ==
    IF r > Len(col) THEN acc
    ELSE IF col[r] = NaN \/ col[r] \in Range(acc) THEN UniquesFrom(col, r + 1, acc)
    ELSE UniquesFrom(col, r + 1, Append(acc, col[r]))

Uniques(col) == UniquesFrom(col, 1, <<>>)

nunique(col) == Len(Uniques(col))

Freq(col, v) == Cardinality({r \in 1..Len(col) : col[r] = v})

\* Stable descending sort of the distinct values by frequency: repeatedly
\* take the most frequent remaining value, the earliest seen among ties.
RECURSIVE SortByFreq(_, _)
SortByFreq(col, vals) ==
    IF Len(vals) = 0 THEN <<>>
    ELSE LET best == CHOOSE i \in 1..Len(vals) :
                        /\ \A j \in 1..Len(vals) : Freq(col, vals[j]) <= Freq(col, vals[i])
                        /\ \A j \in 1..(i - 1) : Freq(col, vals[j]) < Freq(col, vals[i])
             rest == SubSeq(vals, 1, best - 1) \o SubSeq(vals, best + 1, Len(vals))
         IN <<vals[best]>> \o SortByFreq(col, rest)

\* Series.value_counts().index
value_counts_index(col) == SortByFreq(col, Uniques(col))

\* df.info(buf=buffer): per column its non-null count and dtype, and the row count.
info(d) ==
    [rows |-> d.nrows,
     columns |-> [c \in 1..d.ncols |->
                  [non_null |-> Cardinality({r \in 1..d.nrows : d.cells[c][r] # NaN}),
                   dtype |-> d.dtypes[c]]]]

RECURSIVE SumFrom(_, _)
SumFrom(col, r) ==
    IF r > Len(col) THEN 0 ELSE col[r].n + SumFrom(col, r + 1)

\* round(x, 2) of the quotient total / count, in hundredths (half to even).
RoundedMean100(total, count) ==
    LET q == (100 * total) \div count
        rem == (100 * total) % count
    IN IF 2 * rem > count THEN q + 1
       ELSE IF 2 * rem = count THEN q + (q % 2)
       ELSE q

\* One column of describe(include='number').round(2): count, mean, min, max
\* (std and the quartiles are left out: no response field is compared on them).
DescribeNumber(d, c) ==
    LET col == d.cells[c]
        vals == {col[r].n : r \in {q \in 1..Len(col) : col[q] # NaN}}
        count == Cardinality({r \in 1..Len(col) : col[r] # NaN})
    IN [col |-> c,
        count |-> count,
        mean |-> IF count = 0 THEN NaN ELSE Num(RoundedMean100(SumFrom(col, 1), count)),
        min |-> IF count = 0 THEN NaN ELSE Num(CHOOSE v \in vals : \A w \in vals : v <= w),
        max |-> IF count = 0 THEN NaN ELSE Num(CHOOSE v \in vals : \A w \in vals : v >= w)]

\* One column of describe(include=['object', 'category']): count, unique, top, freq.
DescribeObject(d, c) ==
    LET col == d.cells[c]
        order == value_counts_index(col)
    IN [col |-> c,
        count |-> Cardinality({r \in 1..Len(col) : col[r] # NaN}),
        unique |-> Len(order),
        top |-> IF Len(order) = 0 THEN NaN ELSE order[1],
        freq |-> IF Len(order) = 0 THEN NaN ELSE Num(Freq(col, order[1]))]

\* DataFrame.describe(include=...): pandas concatenates one description per
\* selected column and raises ValueError when no column is selected.
describe(d, include) ==
    LET cols == select_dtypes(d, include)
    IN IF Len(cols) = 0 THEN Raise("ValueError: No objects to concatenate")
       ELSE Ok([i \in 1..Len(cols) |->
                IF include = NumberDtypes THEN DescribeNumber(d, cols[i])
                ELSE DescribeObject(d, cols[i])])

TableClasses == "table table-striped table-bordered"

to_html(stats) == [tag |-> "table", class |-> TableClasses, border |-> 0, columns |-> stats]

PlaceholderNumericas == [tag |-> "p", text |-> "No hay columnas numéricas."]
PlaceholderCategoricas == [tag |-> "p", text |-> "No hay columnas categóricas."]

(***************************************************************************)
(* Figures and the chart functions.  A figure is its title, its grid and   *)
(* what each grid cell (axes) shows.  Rendering fails when a drawing call  *)
(* (sns.heatmap, sns.histplot, sns.countplot) raises, which leaves the     *)
(* figure partly drawn, or when the layout or encoding step                *)
(* (fig.tight_layout, fig.savefig) raises, e.g. on a column name that is   *)
(* not valid mathtext, after all the drawing.  Either way the exception    *)
(* passes plt.close and the figure stays open.                             *)
(***************************************************************************)
ChartNames ==
    {"null_heatmap", "correlation_heatmap", "numeric_distributions",
     "categorical_distributions"}

DataUriPrefix == "data:image/png;base64,"

\* base64 of the PNG of the figure, behind the data-URI prefix.
DataUri(fig) == [kind |-> "data_uri", prefix |-> DataUriPrefix, png |-> fig]

\* An exception was raised: nothing is encoded and the figure is not closed.
RaisedOut == [ok |-> FALSE, val |-> None, closed |-> 0]

\* fig_to_base64: savefig, encode, then plt.close(fig).  When savefig raises,
\* plt.close is not reached and the figure stays in pyplot's registry.
fig_to_base64(fig, fail) ==
    IF fail THEN RaisedOut
    ELSE [ok |-> TRUE, val |-> DataUri(fig), closed |-> 1]

\* A chart function without its try/except: the exception leaves the function.
ChartReraise(out) ==
    [ret |-> out.val, raised |-> ~out.ok, escaped |-> ~out.ok]

\* except Exception as e: print(...); return None
ChartExcept(out) ==
    [ret |-> IF out.ok THEN out.val ELSE None, raised |-> ~out.ok, escaped |-> FALSE]

NoFigure == [title |-> "", n_rows |-> 0, n_cols |-> 0, axes |-> <<>>]

\* The chart returned None before creating a figure.
NotApplicable(cols) ==
    [ret |-> None, fig |-> NoFigure, cols |-> cols, calls |-> 0, created |-> 0,
     leaked |-> 0, raised |-> FALSE, escaped |-> FALSE]

\* Where a chart function raises.  A chart with n_calls drawing calls
\* (sns.heatmap once, sns.histplot / sns.countplot once per sub-plot) is run
\* with a failure point fail:
\*   0              nothing raises;
\*   i in 1..n_calls   the i-th drawing call raises;
\*   n_calls + 1    tight_layout / savefig raises, after all the drawing.
RaisesInDraw(n_calls, fail) == fail \in 1..n_calls

RaisesInSave(n_calls, fail) == fail > n_calls

\* The drawing calls that returned before the exception, if any.
DrawnCalls(n_calls, fail) == IF RaisesInDraw(n_calls, fail) THEN fail - 1 ELSE n_calls

\* plt.subplots(...), the drawing calls, then return fig_to_base64(fig).
\* fig is the figure as the drawing calls left it.
Rendered(fig, cols, n_calls, fail) ==
    LET enc == IF RaisesInDraw(n_calls, fail) THEN RaisedOut
               ELSE fig_to_base64(fig, RaisesInSave(n_calls, fail))
        out == ChartExcept(enc)
    IN [ret |-> out.ret, fig |-> fig, cols |-> cols, calls |-> n_calls,
        created |-> 1, leaked |-> 1 - enc.closed, raised |-> out.raised,
        escaped |-> out.escaped]

\* axes[i].set_visible(False)
HiddenAxes == [visible |-> FALSE, col |-> 0, order |-> <<>>]

\* An axes as plt.subplots created it: visible, nothing drawn on it.
BlankAxes == [visible |-> TRUE, col |-> 0, order |-> <<>>]

\* A single axes showing a heatmap over the given columns.  When sns.heatmap
\* raises, the axes is blank and set_title is not reached.
HeatmapFigure(title, cols, fail) ==
    IF RaisesInDraw(1, fail)
    THEN [title |-> "", n_rows |-> 1, n_cols |-> 1, axes |-> <<BlankAxes>>]
    ELSE [title |-> title, n_rows |-> 1, n_cols |-> 1,
          axes |-> <<[visible |-> TRUE, col |-> 0, order |-> cols]>>]

\* n_rows = (n_plots - 1) // n_cols + 1
GridRows(n_plots, n_cols) == (n_plots - 1) \div n_cols + 1

\* axes.flatten(); plot i goes to axes[i] and shows orders[i]; axes from
\* n_plots on are hidden; then suptitle.  When the i-th drawing call raises,
\* the plots before i are drawn, and neither the hiding loop nor suptitle is
\* reached: every other axes is blank and visible.
GridFigure(title, cols_to_plot, n_cols, orders, fail) ==
    LET n_plots == Len(cols_to_plot)
        n_rows == GridRows(n_plots, n_cols)
        drawn == DrawnCalls(n_plots, fail)
        broke == RaisesInDraw(n_plots, fail)
    IN [title |-> IF broke THEN "" ELSE title,
        n_rows |-> n_rows, n_cols |-> n_cols,
        axes |-> [i \in 1..(n_rows * n_cols) |->
                  IF i <= drawn
                  THEN [visible |-> TRUE, col |-> cols_to_plot[i],
                        order |-> orders[i]]
                  ELSE IF broke THEN BlankAxes ELSE HiddenAxes]]

always_heatmap_nulos(d, fail) ==
    Rendered(HeatmapFigure("Mapa de Calor de Valores Nulos", Indices(d.ncols), fail),
             Indices(d.ncols), 1, fail)

generar_heatmap_nulos(d, fail) ==
    IF NullCount(d) = 0 THEN NotApplicable(<<>>)
    ELSE Rendered(HeatmapFigure("Mapa de Calor de Valores Nulos", Indices(d.ncols),
                                fail),
                  Indices(d.ncols), 1, fail)

generar_heatmap_correlacion(d, fail) ==
    LET numeric_df == select_dtypes(d, NumberDtypes)
    IN IF Len(numeric_df) < MinCorrCols THEN NotApplicable(numeric_df)
       ELSE Rendered(HeatmapFigure("Mapa de Calor de Correlación Numérica",
                                   numeric_df, fail),
                     numeric_df, 1, fail)

last_numeric_cols(numeric_cols) ==
    SubSeq(numeric_cols, Len(numeric_cols) - Min(MaxHist, Len(numeric_cols)) + 1,
           Len(numeric_cols))

\* numeric_cols[:9]
numeric_cols_to_plot(numeric_cols) == Take(numeric_cols, MaxHist)

generar_histogramas_numericos(d, fail) ==
    LET numeric_cols == select_dtypes(d, NumberDtypes)
    IN IF Len(numeric_cols) = 0 THEN NotApplicable(<<>>)
       ELSE LET cols == numeric_cols_to_plot(numeric_cols)
            IN Rendered(GridFigure("Distribución de Variables Numéricas", cols,
                                   HistGridCols, [i \in 1..Len(cols) |-> <<>>],
                                   fail),
                        cols, Len(cols), fail)

suitable_cols_any_dtype(d, categorical_cols) ==
    SelectSeq(Indices(d.ncols),
              LAMBDA c : d.dtypes[c] # "number" /\ nunique(d.cells[c]) < MaxUnique)

\* [col for col in categorical_cols if df[col].nunique() < 20]
suitable_cols(d, categorical_cols) ==
    SelectSeq(categorical_cols, LAMBDA c : nunique(d.cells[c]) < MaxUnique)

\* df[col].value_counts().index[:10]
top_categories(d, c) == Take(value_counts_index(d.cells[c]), TopCategories)

generar_barras_categoricas(d, fail) ==
    LET categorical_cols == select_dtypes(d, CategoricalDtypes)
        suitable == suitable_cols(d, categorical_cols)
    IN IF Len(suitable) = 0 THEN NotApplicable(<<>>)
       ELSE LET cols == Take(suitable, MaxBars)
            IN Rendered(GridFigure("Frecuencia de Variables Categóricas", cols,
                                   BarGridCols,
                                   [i \in 1..Len(cols) |-> top_categories(d, cols[i])],
                                   fail),
                        cols, Len(cols), fail)

(***************************************************************************)
(* upload_file                                                             *)
(***************************************************************************)
DotCsv == <<".", "c", "s", "v">>

\* str.endswith
EndsWith(name, suffix) ==
    /\ Len(name) >= Len(suffix)
    /\ SubSeq(name, Len(name) - Len(suffix) + 1, Len(name)) = suffix

Message(text, cause) == [text |-> text, cause |-> cause]

ErrMissingFile == Message("No se encontró el archivo", "")
ErrEmptyFilename == Message("No se seleccionó ningún archivo", "")
ErrInvalidFormat ==
    Message("Formato de archivo no válido. Por favor, sube un archivo .csv", "")
ErrProcessing(e) == Message("Hubo un error al procesar el archivo: ", e)

\* The extension is tested before the empty filename.
PreCheckFormatFirst(r) ==
    IF ~r.has_file THEN "missing"
    ELSE IF ~EndsWith(r.filename, DotCsv) THEN "format"
    ELSE IF r.filename = <<>> THEN "empty"
    ELSE "ok"

\* The three checks before the try block, in the order of the code.
PreCheck(r) ==
    IF ~r.has_file THEN "missing"
    ELSE IF r.filename = <<>> THEN "empty"
    ELSE IF ~(r.filename # <<>> /\ EndsWith(r.filename, DotCsv)) THEN "format"
    ELSE "ok"

\* No except clause around the processing: the exception leaves upload_file.
UploadReraise(e) == [unhandled |-> ErrProcessing(e)]

\* except Exception as e: return jsonify({'error': f'...: {str(e)}'})
UploadExcept(e) == [error |-> ErrProcessing(e)]

NoPlots == [n \in {} |-> None]

Extend(f, k, v) == [x \in DOMAIN f \cup {k} |-> IF x = k THEN v ELSE f[x]]

\* The order in which the graficas dict literal calls the chart functions.
ChartOrder ==
    <<"null_heatmap", "correlation_heatmap", "numeric_distributions",
      "categorical_distributions">>

RunChart(name, d, fail) ==
    CASE name = "null_heatmap" -> generar_heatmap_nulos(d, fail)
      [] name = "correlation_heatmap" -> generar_heatmap_correlacion(d, fail)
      [] name = "numeric_distributions" -> generar_histogramas_numericos(d, fail)
      [] OTHER -> generar_barras_categoricas(d, fail)

\* The chart calls in order, up to the first one whose exception escapes.
RECURSIVE RunCharts(_, _, _, _)
RunCharts(d, fails, i, done) ==
    IF i > Len(ChartOrder) THEN done
    ELSE LET name == ChartOrder[i]
             res == RunChart(name, d, fails[name])
         IN IF res.escaped THEN Extend(done, name, res)
            ELSE RunCharts(d, fails, i + 1, Extend(done, name, res))

RECURSIVE SumLeaked(_, _)
SumLeaked(ran, names) ==
    IF names = {} THEN 0
    ELSE LET n == CHOOSE x \in names : TRUE
         IN ran[n].leaked + SumLeaked(ran, names \ {n})

\* What one call of upload_file does: the response, and its effects.
Outcome(resp, read, d, ran) ==
    [response |-> resp, file_read |-> read, df |-> d, plots |-> ran,
     failed |-> {n \in DOMAIN ran : ran[n].raised},
     leaked |-> SumLeaked(ran, DOMAIN ran)]

\* The try block up to the describe calls: read the CSV, list the columns,
\* count the duplicates, summarize; any exception ends the try block.
Summarize(r) ==
    LET parsed == read_csv(r.content)
    IN IF ~parsed.ok THEN [ok |-> FALSE, exc |-> parsed.exc, df |-> EmptyFrame]
       ELSE
       LET d == parsed.val
           desc_numericas == describe(d, NumberDtypes)
           desc_categoricas == describe(d, CategoricalDtypes)
       IN IF ~desc_numericas.ok
          THEN [ok |-> FALSE, exc |-> desc_numericas.exc, df |-> d]
          ELSE IF ~desc_categoricas.ok
          THEN [ok |-> FALSE, exc |-> desc_categoricas.exc, df |-> d]
          ELSE [ok |-> TRUE, exc |-> "", df |-> d,
                info_columnas |-> info(d),
                num_duplicados |-> CountTrue(duplicated(d)),
                desc_numericas |->
                    IF ~IsEmpty(d, select_dtypes(d, NumberDtypes))
                    THEN to_html(desc_numericas.val) ELSE PlaceholderNumericas,
                desc_categoricas |->
                    IF ~IsEmpty(d, select_dtypes(d, CategoricalDtypes))
                    THEN to_html(desc_categoricas.val) ELSE PlaceholderCategoricas]

\* The rest of the try block, and its except clause: the four charts, then
\* the result object.  s is what Summarize left.
Process(r, s, fails) ==
    IF ~s.ok THEN Outcome(UploadExcept(s.exc), TRUE, s.df, NoPlots)
    ELSE
    LET ran == RunCharts(s.df, fails, 1, NoPlots)
    IN IF \E n \in DOMAIN ran : ran[n].escaped
       THEN Outcome(UploadExcept("RenderError"), TRUE, s.df, ran)
       ELSE Outcome(
           [nombre_archivo |-> r.filename,
            num_filas |-> s.df.nrows,
            num_columnas |-> s.df.ncols,
            info_columnas |-> s.info_columnas,
            num_duplicados |-> s.num_duplicados,
            desc_numericas |-> s.desc_numericas,
            desc_categoricas |-> s.desc_categoricas,
            graficas |-> [n \in ChartNames |-> ran[n].ret]],
           TRUE, s.df, ran)

\* upload_file, given what Summarize(r) would leave if the checks pass.
Handle(r, s, fails) ==
    LET check == PreCheck(r)
    IN CASE check = "missing" ->
                Outcome([error |-> ErrMissingFile], FALSE, EmptyFrame, NoPlots)
         [] check = "empty" ->
                Outcome([error |-> ErrEmptyFilename], FALSE, EmptyFrame, NoPlots)
         [] check = "format" ->
                Outcome([error |-> ErrInvalidFormat], FALSE, EmptyFrame, NoPlots)
         [] OTHER -> Process(r, s, fails)

\* fails: chart name -> the failure point of its rendering (0: none).
upload_file(r, fails) == Handle(r, Summarize(r), fails)

(***************************************************************************)
(* Inputs.                                                                 *)
(***************************************************************************)
Tokens == {"", "1", "x"}

Csv(ncols, rows) == [utf8 |-> TRUE, ncols |-> ncols, rows |-> rows]

\* Every rectangular CSV within the bounds.
Tables ==
    UNION {{Csv(c, rows) : rows \in [1..n -> [1..c -> Tokens]]} :
           <<c, n>> \in {<<a, b>> \in (1..MaxCols) \X (0..MaxRows) : a * b <= MaxCells}}

\* Bytes that are not UTF-8, an empty file, a row longer than the header,
\* a row shorter than the header.
OddContents ==
    {[utf8 |-> FALSE, ncols |-> 1, rows |-> <<>>],
     Csv(0, <<>>),
     Csv(1, <<<<"1">>, <<"1", "x">>>>),
     Csv(2, <<<<"1", "x">>, <<"1">>>>)}

Contents == Tables \cup OddContents

\* Contents sent under every filename: the odd ones and the tables of one row.
ProbeContents == OddContents \cup {t \in Tables : Len(t.rows) = 1}

CsvName == <<"d", ".", "c", "s", "v">>

Filenames ==
    {<<>>, CsvName, DotCsv, <<"c", "s", "v">>, <<"d", ".", "t", "x", "t">>,
     <<"d", ".", "c", "s", "v", ".", "t", "x", "t">>, <<"d", ".", "C", "S", "V">>}

NoContent == Csv(0, <<>>)

\* A form without a 'file' part.
NoFileRequest == [has_file |-> FALSE, filename |-> <<>>, content |-> NoContent]

FileRequest(name, content) == [has_file |-> TRUE, filename |-> name, content |-> content]

Requests ==
    {NoFileRequest}
    \cup {FileRequest(f, c) : f \in Filenames, c \in ProbeContents}
    \cup {FileRequest(CsvName, c) : c \in Contents}

(***************************************************************************)
(* The server: requests are handled one at a time; only pyplot's figure    *)
(* registry outlives a request.                                            *)
(***************************************************************************)
NoResponse == [pending |-> TRUE]

Init ==
    /\ pc = "idle"
    /\ req = NoFileRequest
    /\ response = NoResponse
    /\ df = EmptyFrame
    /\ file_read = FALSE
    /\ failed = {}
    /\ plots = NoPlots
    /\ open_figs = 0
    /\ served = 0

\* Flask routes a POST /upload to upload_file.
Receive(r) ==
    /\ pc = "idle"
    /\ served < MaxRequests
    /\ pc' = "received"
    /\ req' = r
    /\ UNCHANGED <<response, df, file_read, failed, plots, open_figs, served>>

\* No chart raises.
NoFailure == [n \in ChartNames |-> 0]

\* The failure points of a chart, given what it does when nothing raises:
\* any of its drawing calls, or the layout/encoding step.  A chart that
\* creates no figure has none.
FailPoints(plain, n) ==
    IF n \in DOMAIN plain /\ plain[n].created = 1
    THEN 1..(plain[n].calls + 1) ELSE {}

\* The failure points of a chart, and 0 for no failure.
MayFail(plain, n) == {0} \cup FailPoints(plain, n)

\* Every combination of failure points of the four charts.
AllFailures(plain) ==
    {[null_heatmap |-> a, correlation_heatmap |-> b, numeric_distributions |-> c,
      categorical_distributions |-> e] :
         a \in MayFail(plain, "null_heatmap"),
         b \in MayFail(plain, "correlation_heatmap"),
         c \in MayFail(plain, "numeric_distributions"),
         e \in MayFail(plain, "categorical_distributions")}

\* upload_file returns out.
Respond(out) ==
    /\ response' = out.response
    /\ df' = out.df
    /\ file_read' = out.file_read
    /\ failed' = out.failed
    /\ plots' = out.plots
    /\ open_figs' = open_figs + out.leaked
    /\ pc' = "responded"
    /\ UNCHANGED <<req, served>>

\* upload_file runs to its return; any of its charts may raise.
Upload ==
    /\ pc = "received"
    /\ \E s \in {Summarize(req)} :
         \E plain \in {Handle(req, s, NoFailure).plots} :
           \E fails \in AllFailures(plain) : Respond(Handle(req, s, fails))

\* The response is sent and the request's objects are dropped.
Finish ==
    /\ pc = "responded"
    /\ pc' = "idle"
    /\ req' = NoFileRequest
    /\ response' = NoResponse
    /\ df' = EmptyFrame
    /\ file_read' = FALSE
    /\ failed' = {}
    /\ plots' = NoPlots
    /\ served' = served + 1
    /\ UNCHANGED open_figs

Next ==
    \/ \E r \in Requests : Receive(r)
    \/ Upload
    \/ Finish

Spec == Init /\ [][Next]_vars

(***************************************************************************)
(* Uploads of wide tables: more numeric columns than MaxHist, more         *)
(* eligible columns than MaxBars, columns with more distinct values than   *)
(* MaxUnique and TopCategories, numeric, text and boolean columns side by  *)
(* side.                                                                   *)
(***************************************************************************)
Letters ==
    <<"a", "b", "c", "d", "e", "f", "g", "h", "i", "j", "k", "l", "m",
      "n", "o", "p", "q", "r", "s", "t", "u", "v", "w", "x", "y", "z">>

\* How the values of a text column are laid out over the rows:
\*   "cyc"  the d values in turn;
\*   "tail" d - 1 values once each, then the last value on every remaining row;
\*   "gap"  as "cyc", the first field empty.
TextCol(d, layout) == [k |-> "txt", d |-> d, layout |-> layout]

NumCol == [k |-> "num", d |-> 1, layout |-> "cyc"]
BoolCol == [k |-> "bool", d |-> 1, layout |-> "cyc"]

\* The kinds of the first column: numbers, text with two values.
HeadSpecs == {NumCol, TextCol(2, "cyc")}

\* The kinds of most columns: numbers, text with more values than
\* TopCategories, text with MaxUnique - 1 values and a missing cell.
ColSpecs ==
    {NumCol, TextCol(TopCategories + 1, "tail"), TextCol(MaxUnique - 1, "gap")}

\* The kinds of the columns in between: numbers, booleans, text with
\* MaxUnique values.
BetweenSpecs == {NumCol, BoolCol, TextCol(MaxUnique, "cyc")}

WideToken(cs, r) ==
    CASE cs.k = "num" -> <<"1", "2", "1.0">>[(r % 3) + 1]
      [] cs.k = "bool" -> IF r % 2 = 0 THEN "True" ELSE "False"
      [] cs.layout = "tail" -> IF r < cs.d THEN Letters[r] ELSE Letters[cs.d]
      [] cs.layout = "gap" /\ r = 1 -> ""
      [] OTHER -> Letters[((r - 1) % cs.d) + 1]

\* n columns: the first follows h; of the others, every m-th follows b and
\* the rest follow a.
WideCsv(n, m, h, a, b) ==
    Csv(n, [r \in 1..WideRows |->
            [c \in 1..n |->
             WideToken(IF c = 1 THEN h ELSE IF c % m = 0 THEN b ELSE a, r)]])

WideTables ==
    {WideCsv(n, m, h, a, b) :
         n \in 2..MaxWideCols, m \in {2, 3}, h \in HeadSpecs,
         a \in ColSpecs, b \in BetweenSpecs}

WideRequests == {FileRequest(CsvName, t) : t \in WideTables}

\* One upload of a wide table.
NextWide ==
    \/ \E r \in WideRequests : Receive(r)
    \/ Upload

SpecWide == Init /\ [][NextWide]_vars

(***************************************************************************)
(* Properties.                                                             *)
(***************************************************************************)
ResultFields ==
    {"nombre_archivo", "num_filas", "num_columnas", "info_columnas",
     "num_duplicados", "desc_numericas", "desc_categoricas", "graficas"}

IsError(resp) == DOMAIN resp = {"error"}
IsSuccess(resp) == DOMAIN resp = ResultFields

IsDataUri(v) == v # None /\ v.kind = "data_uri" /\ v.prefix = "data:image/png;base64,"

\* An upload whose filename passed the three checks.
Accepted == req.has_file /\ req.filename # <<>> /\ EndsWith(req.filename, DotCsv)

\* The response is exactly the given error, and nothing was read or computed.
ShortCircuited(msg) ==
    /\ IsError(response)
    /\ response.error = msg
    /\ ~file_read
    /\ df = EmptyFrame
    /\ plots = NoPlots
    /\ failed = {}

\* C1: the checks MissingFile, EmptyFilename, InvalidFormat apply in that
\* order; the first that fails answers with only its error message, without
\* reading the file, computing any statistic or chart, or raising.
C1_PreChecksShortCircuit ==
    pc = "responded" =>
        /\ ~req.has_file => ShortCircuited(ErrMissingFile)
        /\ (req.has_file /\ req.filename = <<>>) => ShortCircuited(ErrEmptyFilename)
        /\ (req.has_file /\ req.filename # <<>> /\ ~EndsWith(req.filename, DotCsv))
             => ShortCircuited(ErrInvalidFormat)
        /\ Accepted => file_read

\* A file with rows was uploaded under a name that is not *.csv and was
\* answered without being read.
C1_Witness ==
    /\ pc = "responded"
    /\ req.has_file
    /\ req.filename = <<"d", ".", "c", "s", "v", ".", "t", "x", "t">>
    /\ Len(req.content.rows) > 0
    /\ response.error = ErrInvalidFormat
    /\ ~file_read

\* C2: every upload ends with an object that has either only 'error' or
\* exactly the eight result fields; a failure while decoding, parsing or
\* summarizing an accepted upload gives the error whose message embeds the
\* cause; no exception leaves upload_file.
C2_StructuredResponse ==
    pc = "responded" =>
        /\ IsError(response) \/ IsSuccess(response)
        /\ (Accepted /\ ~read_csv(req.content).ok) =>
               /\ IsError(response)
               /\ response.error.text = "Hubo un error al procesar el archivo: "
               /\ response.error.cause = read_csv(req.content).exc
               /\ response.error.cause \in
                      {"UnicodeDecodeError", "EmptyDataError", "ParserError"}
        /\ (Accepted /\ IsError(response)) =>
               response.error.text = "Hubo un error al procesar el archivo: "
        /\ (Accepted /\ read_csv(req.content).ok /\ IsError(response)) =>
               response.error.cause = "ValueError: No objects to concatenate"

\* An accepted upload whose content could not be tokenized was answered with
\* the processing error naming the parser's exception.
C2_Witness ==
    /\ pc = "responded"
    /\ Accepted
    /\ IsError(response)
    /\ response.error.cause = "ParserError"

\* The columns of the parsed table that are numeric.
NumericColumns == {c \in 1..df.ncols : df.dtypes[c] = "number"}

\* The columns of the parsed table whose dtype is object or category.
TextColumns == {c \in 1..df.ncols : df.dtypes[c] \in {"object", "category"}}

\* The request was accepted and its content parsed into a table.
Parsed == pc = "responded" /\ Accepted /\ read_csv(req.content).ok

\* C3: a table with zero numeric columns is answered successfully, with the
\* numeric placeholder and without correlation and numeric-distribution charts.
C3_NoNumericPlaceholder ==
    (Parsed /\ NumericColumns = {}) =>
        /\ IsSuccess(response)
        /\ response.desc_numericas = PlaceholderNumericas
        /\ response.graficas["correlation_heatmap"] = None
        /\ response.graficas["numeric_distributions"] = None

\* C4: a table with no object/category columns is answered successfully, with
\* the categorical placeholder and the other result fields.
C4_NoCategoricalPlaceholder ==
    (Parsed /\ TextColumns = {}) =>
        /\ IsSuccess(response)
        /\ response.desc_categoricas = PlaceholderCategoricas
        /\ response.num_filas = df.nrows
        /\ response.num_columnas = df.ncols

\* C5: whichever charts fail to render, the request succeeds, graficas has
\* the four keys, each failed chart is None, every other chart and every
\* other result field is what it is when no chart fails.
C5_ChartsIsolated ==
    (pc = "responded" /\ failed # {}) =>
        LET plain == upload_file(req, NoFailure).response
        IN /\ IsSuccess(response)
           /\ IsSuccess(plain)
           /\ DOMAIN response.graficas = ChartNames
           /\ \A n \in failed : response.graficas[n] = None
           /\ \A n \in ChartNames \ failed :
                  response.graficas[n] = plain.graficas[n]
           /\ \A f \in ResultFields \ {"graficas"} : response[f] = plain[f]

\* Two charts failed and another chart of the same request was rendered.
C5_Witness ==
    /\ pc = "responded"
    /\ Cardinality(failed) >= 2
    /\ IsSuccess(response)
    /\ \E n \in ChartNames \ failed : IsDataUri(response.graficas[n])

\* Some cell of the parsed table is missing.
HasMissing == \E c \in 1..df.ncols : \E r \in 1..df.nrows : df.cells[c][r] = NaN

\* C6 as stated: in a successful response the missingness chart is None when
\* no cell is missing and a data-URI image when some cell is missing.
C6_Original ==
    (pc = "responded" /\ IsSuccess(response)) =>
        /\ ~HasMissing => response.graficas["null_heatmap"] = None
        /\ HasMissing => IsDataUri(response.graficas["null_heatmap"])

\* C6 amended: in a successful response the missingness chart is None when
\* no cell is missing; when some cell is missing it is a data-URI image if
\* its rendering did not fail and None if it failed.
C6_MissingnessChart ==
    (pc = "responded" /\ IsSuccess(response)) =>
        /\ ~HasMissing => response.graficas["null_heatmap"] = None
        /\ (HasMissing /\ "null_heatmap" \notin failed) =>
               IsDataUri(response.graficas["null_heatmap"])
        /\ "null_heatmap" \in failed =>
               (HasMissing /\ response.graficas["null_heatmap"] = None)

\* A table with a missing cell got its missingness chart.
C6_Witness ==
    /\ pc = "responded"
    /\ IsSuccess(response)
    /\ HasMissing
    /\ IsDataUri(response.graficas["null_heatmap"])

\* Row r of the parsed table.
TableRow(r) == [c \in 1..df.ncols |-> df.cells[c][r]]

\* C9: the duplicate count is the number of rows equal in every column to an
\* earlier row, that is the rows minus the distinct rows; it is between 0 and
\* num_filas - 1.
C9_DuplicateCount ==
    (pc = "responded" /\ IsSuccess(response)) =>
        /\ response.num_filas = df.nrows
        /\ response.num_duplicados =
               Cardinality({r \in 1..df.nrows :
                            \E q \in 1..(r - 1) : TableRow(q) = TableRow(r)})
        /\ response.num_duplicados =
               df.nrows - Cardinality({TableRow(r) : r \in 1..df.nrows})
        /\ response.num_duplicados >= 0
        /\ df.nrows > 0 => response.num_duplicados <= df.nrows - 1

\* Two copies of a row were counted as two duplicates.
C9_Witness ==
    /\ pc = "responded"
    /\ IsSuccess(response)
    /\ df.nrows = 3
    /\ response.num_duplicados = 2

\* C10: every figure a render operation created is released before it
\* returns, so no figure is ever left open.
C10_NoOpenFigures == open_figs = 0

(***************************************************************************)
(* Properties of the distribution charts, on uploads of wide tables        *)
(* (SpecWide).                                                             *)
(***************************************************************************)
\* The visible axes of a figure are exactly its first n.
FirstVisible(fig, n) ==
    \A i \in 1..Len(fig.axes) : fig.axes[i].visible <=> i <= n

\* Axes i shows the i-th column, in column order, of the set cols.
InColumnOrder(fig, n, cols) ==
    \A i \in 1..n :
        /\ fig.axes[i].col \in cols
        /\ Cardinality({c \in cols : c < fig.axes[i].col}) = i - 1

\* The axes something was drawn on.
DrawnAxes(fig) == {i \in 1..Len(fig.axes) : fig.axes[i].col # 0}

\* What was drawn before an exception: the first j of the columns cols, in
\* column order, for some j <= n, and nothing on the other axes.
DrawnPrefix(fig, n, cols) ==
    LET j == Cardinality(DrawnAxes(fig))
    IN /\ j <= n
       /\ DrawnAxes(fig) = 1..j
       /\ InColumnOrder(fig, j, cols)

\* The histogram grid of n sub-plots: 3 columns, ceil(n / 3) rows, sub-plot i
\* in cell i showing the i-th numeric column, every other cell hidden.
HistogramsDraw(p, n) ==
    /\ p.created = 1
    /\ p.fig.n_cols = 3
    /\ 3 * p.fig.n_rows >= n
    /\ 3 * (p.fig.n_rows - 1) < n
    /\ Len(p.fig.axes) = 3 * p.fig.n_rows
    /\ FirstVisible(p.fig, n)
    /\ InColumnOrder(p.fig, n, NumericColumns)

\* No histogram figure was created and no histogram image was returned.
NoHistogram ==
    /\ "numeric_distributions" \in DOMAIN plots =>
           /\ plots["numeric_distributions"].ret = None
           /\ plots["numeric_distributions"].created = 0
    /\ IsSuccess(response) => response.graficas["numeric_distributions"] = None

Values(c) == {df.cells[c][r] : r \in 1..df.nrows} \ {NaN}

Occurrences(c, v) == Cardinality({r \in 1..df.nrows : df.cells[c][r] = v})

\* The values shown for a drawn column: at most 10, distinct, in descending
\* frequency, and none left out is more frequent than one shown.
TopValues(c, order) ==
    /\ Len(order) = (IF Cardinality(Values(c)) < 10 THEN Cardinality(Values(c)) ELSE 10)
    /\ \A i \in 1..Len(order) : order[i] \in Values(c)
    /\ \A i, j \in 1..Len(order) : i < j =>
           /\ order[i] # order[j]
           /\ Occurrences(c, order[i]) >= Occurrences(c, order[j])
    /\ \A v \in Values(c) \ Range(order) :
           \A i \in 1..Len(order) : Occurrences(c, v) <= Occurrences(c, order[i])

\* A bar-chart call that returns its image draws the first 6 columns, in
\* column order, of the set eligible, each with its top values; there is no
\* chart when the set is empty.
BarsDraw(eligible) ==
    LET p == plots["categorical_distributions"]
        e == Cardinality(eligible)
        n == IF e < 6 THEN e ELSE 6
    IN IF e = 0 THEN p.ret = None /\ p.created = 0
       ELSE /\ p.created = 1
            /\ ~p.raised =>
                   /\ FirstVisible(p.fig, n)
                   /\ InColumnOrder(p.fig, n, eligible)
                   /\ \A i \in 1..n :
                          TopValues(p.fig.axes[i].col, p.fig.axes[i].order)
                   /\ IsDataUri(p.ret)
                   /\ p.ret.png = p.fig

\* A bar-chart call that raises returns None, having drawn only some first
\* columns of the set eligible, in column order, each with its top values.
BarsBroken(eligible) ==
    LET p == plots["categorical_distributions"]
        e == Cardinality(eligible)
        n == IF e < 6 THEN e ELSE 6
    IN p.raised =>
           /\ p.ret = None
           /\ DrawnPrefix(p.fig, n, eligible)
           /\ \A i \in DrawnAxes(p.fig) :
                  TopValues(p.fig.axes[i].col, p.fig.axes[i].order)

\* C8 as stated, for the calls that return their image: a column is eligible
\* iff it is non-numeric and has fewer than 20 distinct values; the columns
\* drawn are the first 6 eligible ones in column order, each showing at most
\* its 10 most frequent values; no chart when no column is eligible.
C8_Original ==
    (pc = "responded" /\ "categorical_distributions" \in DOMAIN plots) =>
        BarsDraw({c \in 1..df.ncols :
                  c \notin NumericColumns /\ Cardinality(Values(c)) < 20})

\* C8 amended: a column is eligible iff its dtype is object or category and
\* it has fewer than 20 distinct values; a rendering that does not raise
\* draws the first 6 eligible columns in column order, each showing at most
\* its 10 most frequent values in descending frequency; a rendering that
\* raises returns None; no chart when no column is eligible.
C8_Bars ==
    (pc = "responded" /\ "categorical_distributions" \in DOMAIN plots) =>
        LET eligible == {c \in TextColumns : Cardinality(Values(c)) < 20}
        IN /\ BarsDraw(eligible)
           /\ BarsBroken(eligible)
           /\ IsSuccess(response) =>
                  response.graficas["categorical_distributions"] =
                      plots["categorical_distributions"].ret

\* More than 6 eligible columns, a text column with 20 or more distinct
\* values before a drawn one, a drawn column with more than 10 values, and
\* the image returned.
C8_Witness ==
    /\ pc = "responded"
    /\ "categorical_distributions" \in DOMAIN plots
    /\ Cardinality({c \in TextColumns : Cardinality(Values(c)) < 20}) > 6
    /\ IsDataUri(response.graficas["categorical_distributions"])
    /\ \E i \in 1..6 :
         LET a == plots["categorical_distributions"].fig.axes[i]
         IN /\ a.visible
            /\ Cardinality(Values(a.col)) > 10
            /\ \E c \in TextColumns : c < a.col /\ Cardinality(Values(c)) >= 20
====
